---- MODULE Spec2Model ----
(***************************************************************************)
(* Model of eis_toolkit's vector-to-raster operations:                     *)
(*   vector_processing/rasterize.py              rasterize_vector          *)
(*   vector_processing/kriging_interpolation.py  kriging                   *)
(*                                                                         *)
(* Numbers.  World coordinates, resolutions and buffer distances are       *)
(* integers.  A quotient computed by the code with "/" is kept exactly as  *)
(* a record [num, den]; den = 0 stands for the NaN that numpy's 0.0/0.0    *)
(* yields.  An Optional argument is a sequence: << >> is None, <<v>> is v. *)
(*                                                                         *)
(* Geometries are axis-parallel boxes [x0, x1, y0, y1]; a box with         *)
(* x0 = x1 and y0 = y1 is a Point, the others are Polygons.                *)
(***************************************************************************)
EXTENDS Integers, Sequences, FiniteSets

\* ------------------------------------------------------------ bounds
MaxCoord == 2        \* coordinates of the caller's geometries lie in 0..MaxCoord
MaxRes == 3          \* largest resolution (cell size) a call passes
MaxBuf == 1          \* largest buffer_value a call passes
MaxMargin == 1       \* repeated buffering may grow a geometry this far

\* ------------------------------------------------------------ optional values
None == << >>
Some(v) == <<v>>
IsNone(o) == Len(o) = 0
Get(o) == o[1]

\* ------------------------------------------------------------ exact quotients
Quot(n, d) == [num |-> n, den |-> d]

\* a / b for quotients a and b (numpy float division: x/0 is not raised but
\* yields nan or inf, kept here as den = 0)
QuotDiv(a, b) ==
    LET n == a.num * b.den
        d == a.den * b.num
    IN  IF d < 0 THEN Quot(-n, -d) ELSE Quot(n, d)

\* Python's round(): to the nearest integer, a tie to the even one.
\* Only applied to quotients with num >= 0 and den > 0.
Round(q) ==
    LET f == q.num \div q.den
        r == q.num % q.den
    IN  IF 2 * r < q.den THEN f
        ELSE IF 2 * r > q.den THEN f + 1
        ELSE IF f % 2 = 0 THEN f ELSE f + 1

\* ------------------------------------------------------------ geometries
Box(x0, x1, y0, y1) == [x0 |-> x0, x1 |-> x1, y0 |-> y0, y1 |-> y1]
IsPoint(g) == g.x0 = g.x1 /\ g.y0 = g.y1

\* The geometries a caller's GeoDataFrame is drawn from: points and squares
\* of side w whose lower left corner is (x0, y0).
Geometries ==
    { Box(t[1], t[1] + t[2], t[3], t[3] + t[2]) :
        t \in { u \in (0..MaxCoord) \X (0..MaxCoord) \X (0..1) :
                   u[1] + u[2] <= MaxCoord } }

\* shapely's geom.buffer(d) for d >= 0, with the rounded corners of the
\* planar buffer squared off: every side moves outwards by d.
buffer(g, d) == Box(g.x0 - d, g.x1 + d, g.y0 - d, g.y1 + d)

\* ------------------------------------------------------------ GeoDataFrame
\* A GeoDataFrame is the sequence of its rows; every frame has the columns
\* "geometry" and "value".
Columns == {"geometry", "value"}
ColumnValues == <<2, 3>>
Row(g, i) == [geometry |-> g, value |-> ColumnValues[i]]

GeoDataFrames ==
    {<< >>}
    \cup { <<Row(g, 1)>> : g \in Geometries }
    \cup { <<Row(g, 1), Row(h, 2)>> : g \in Geometries, h \in Geometries }

\* geodataframe.total_bounds of a non-empty frame: (min_x, min_y, max_x, max_y)
Min(S) == CHOOSE m \in S : \A n \in S : m <= n
Max(S) == CHOOSE m \in S : \A n \in S : m >= n
total_bounds(df) ==
    LET I == 1..Len(df)
    IN  [min_x |-> Min({df[i].geometry.x0 : i \in I}),
         min_y |-> Min({df[i].geometry.y0 : i \in I}),
         max_x |-> Max({df[i].geometry.x1 : i \in I}),
         max_y |-> Max({df[i].geometry.y1 : i \in I})]

\* ------------------------------------------------------------ affine transforms
\* rasterio's Affine(a, 0, c, 0, e, f): pixel (col, row) -> world
\* (c + a * col, f + e * row); a and e are quotients, c and f integers.
Affine(a, c, e, f) == [a |-> a, c |-> c, e |-> e, f |-> f]

\* rasterio.transform.from_bounds(west, south, east, north, width, height)
\*   = Affine.translation(west, north)
\*       * Affine.scale((east - west) / width, (south - north) / height)
from_bounds(west, south, east, north, width, height) ==
    Affine(QuotDiv(Quot(east - west, 1), width), west,
           QuotDiv(Quot(south - north, 1), height), north)

\* ------------------------------------------------------------ rasterio.features.rasterize
\* Cells are numbered from 1: row r, column c is rasterio's pixel
\* (col, row) = (c - 1, r - 1).  Its centre is
\*   (T.c + (2c - 1) * T.a / 2,  T.f + (2r - 1) * T.e / 2),
\* with T.a > 0 and T.e < 0 (north up).  The comparisons below are the
\* ones on these quotients, multiplied out by the positive denominators.

\* A Polygon is burned into the cells whose centre it contains (all_touched
\* is False), borders taken half-open.
PolygonCovers(g, T, r, c) ==
    LET cx2 == T.c * 2 * T.a.den + (2 * c - 1) * T.a.num   \* centre x * 2 * a.den
        cy2 == T.f * 2 * T.e.den + (2 * r - 1) * T.e.num   \* centre y * 2 * e.den
    IN  /\ g.x0 * 2 * T.a.den <= cx2
        /\ cx2 < g.x1 * 2 * T.a.den
        /\ g.y0 * 2 * T.e.den < cy2
        /\ cy2 <= g.y1 * 2 * T.e.den

\* A Point is burned into the cell that contains it.
PointCovers(g, T, r, c) ==
    /\ T.c * T.a.den + (c - 1) * T.a.num <= g.x0 * T.a.den
    /\ g.x0 * T.a.den < T.c * T.a.den + c * T.a.num
    /\ T.f * T.e.den + r * T.e.num < g.y0 * T.e.den
    /\ g.y0 * T.e.den <= T.f * T.e.den + (r - 1) * T.e.num

Covers(g, T, r, c) ==
    IF IsPoint(g) THEN PointCovers(g, T, r, c) ELSE PolygonCovers(g, T, r, c)

\* One element of `shapes` is a geometry alone, burned with default_value,
\* or a (geometry, value) pair.
ShapeGeometry(s) == s[1]
ShapeValue(s, default_value) == IF Len(s) = 2 THEN s[2] ELSE default_value

burn_shape(arr, s, default_value, T) ==
    [r \in DOMAIN arr |->
        [c \in DOMAIN arr[r] |->
            IF Covers(ShapeGeometry(s), T, r, c)
            THEN ShapeValue(s, default_value)
            ELSE arr[r][c]]]

\* The shapes are burned one after the other in the order of the iterable
\* (merge_alg = replace): a later shape overwrites an earlier one.
RECURSIVE burn_shapes_first_wins(_, _, _, _)
burn_shapes_first_wins(arr, shapes, default_value, T) ==
    IF Len(shapes) = 0 THEN arr
    ELSE burn_shape(burn_shapes_first_wins(arr, Tail(shapes), default_value, T),
                   Head(shapes), default_value, T)

RECURSIVE burn_shapes(_, _, _, _)
burn_shapes(arr, shapes, default_value, T) ==
    IF Len(shapes) = 0 THEN arr
    ELSE burn_shapes(burn_shape(arr, Head(shapes), default_value, T),
                    Tail(shapes), default_value, T)

\* features.rasterize(shapes, fill, default_value, transform, out_shape):
\* an array of out_shape = (rows, columns) filled with `fill`, then burned;
\* ValueError("width and height must be > 0") for an empty out_shape.
rasterize(shapes, fill, default_value, T, out_shape) ==
    IF out_shape[1] = 0 \/ out_shape[2] = 0
    THEN [status |-> "raised", exc |-> "ValueError"]
    ELSE [status |-> "returned",
          array |-> burn_shapes([r \in 1..out_shape[1] |-> [c \in 1..out_shape[2] |-> fill]],
                               shapes, default_value, T)]

\* ------------------------------------------------------------ state
VARIABLES
    gdf,        \* the caller's GeoDataFrame, passed to every rasterize_vector call
    pc,         \* position of the rasterize_vector call in progress
    args,       \* its arguments
    buffered,   \* the assignment of line 46 has run in this call
    entered,    \* _rasterize_vector has been entered in this call
    frame,      \* width, height and out_shape as computed by _rasterize_vector
    result,     \* what the call returned or raised
    samples,    \* the caller's point GeoDataFrame, passed to every kriging call
    vspec,      \* the caller's variogram model, method and drift terms
    k_pc,       \* position of the kriging call in progress
    k_args,     \* its arguments
    k_entered,  \* _kriging has been entered in this call
    k_result    \* what the call returned or raised

rvars == <<gdf, pc, args, buffered, entered, frame, result>>
kvars == <<samples, vspec, k_pc, k_args, k_entered, k_result>>
vars == <<gdf, pc, args, buffered, entered, frame, result,
          samples, vspec, k_pc, k_args, k_entered, k_result>>

NoResult == [status |-> "none"]
Raised(exc) == [status |-> "raised", exc |-> exc]

\* ------------------------------------------------------------ rasterize_vector
\* The raster whose footprint a call may rasterize into: MaxCoord + 1 columns
\* and MaxCoord rows of unit cells with the upper left corner at (0, MaxCoord).
BaseRasterProfile ==
    [width |-> MaxCoord + 1, height |-> MaxCoord,
     transform |-> Affine(Quot(1, 1), 0, Quot(-1, 1), MaxCoord)]

DefaultValue == 1     \* default_value: float = 1.0
FillValue == 0        \* fill_value: float = 0.0

RasterizeArgs ==
    [resolution : (-1)..MaxRes,
     value_column : {None, Some("value"), Some("missing")},
     default_value : {DefaultValue},
     fill_value : {FillValue},
     base_raster_profile : {None, Some(BaseRasterProfile)},
     buffer_value : {None} \cup {Some(b) : b \in (-1)..MaxBuf}]

NoArgs ==
    [resolution |-> 0, value_column |-> None, default_value |-> DefaultValue,
     fill_value |-> FillValue, base_raster_profile |-> None, buffer_value |-> None]

NoFrame == [status |-> "none"]

\* Lines 34-43: the exception the checks raise, or "ok".
rasterize_vector_checks_no_buffer_check(df, a) ==
    IF Len(df) = 0 THEN "EmptyDataFrameException"
    ELSE IF ~(a.resolution > 0) THEN "ValueError"
    ELSE IF ~IsNone(a.value_column) /\ Get(a.value_column) \notin Columns THEN "ValueError"
    ELSE "ok"

rasterize_vector_checks(df, a) ==
    IF Len(df) = 0 THEN "EmptyDataFrameException"
    ELSE IF ~(a.resolution > 0) THEN "ValueError"
    ELSE IF ~IsNone(a.value_column) /\ Get(a.value_column) \notin Columns THEN "ValueError"
    ELSE IF ~IsNone(a.buffer_value) /\ Get(a.buffer_value) < 0 THEN "ValueError"
    ELSE "ok"

\* Line 46: geodataframe["geometry"] = geodataframe["geometry"].apply(buffer)
\* assigns the column of the frame that was passed in.
BufferColumn(df, d) ==
    [i \in DOMAIN df |-> [df[i] EXCEPT !.geometry = buffer(@, d)]]

\* What the caller passes: geometries stay within MaxMargin of the original
\* coordinate range, and a Point is not buffered by 0 (shapely returns an
\* empty polygon for it, which is not among the geometries modelled).
CallerPasses(df, a) ==
    IF IsNone(a.buffer_value) THEN TRUE
    ELSE LET d == Get(a.buffer_value)
         IN  d >= 0 =>
               \A i \in DOMAIN df :
                  /\ df[i].geometry.x0 - d >= -MaxMargin
                  /\ df[i].geometry.y0 - d >= -MaxMargin
                  /\ (d = 0 => ~IsPoint(df[i].geometry))

\* rasterize_vector is called: lines 34-43
rasterize_vector(a) ==
    /\ pc = "idle"
    /\ CallerPasses(gdf, a)
    /\ args' = a
    /\ IF rasterize_vector_checks(gdf, a) = "ok"
       THEN /\ pc' = "validated"
            /\ result' = NoResult
       ELSE /\ pc' = "failed"
            /\ result' = Raised(rasterize_vector_checks(gdf, a))
    /\ UNCHANGED <<gdf, buffered, entered, frame>>
    /\ UNCHANGED kvars

\* lines 45-46
rasterize_vector_buffer ==
    /\ pc = "validated"
    /\ IF ~IsNone(args.buffer_value)
       THEN /\ gdf' = BufferColumn(gdf, Get(args.buffer_value))
            /\ buffered' = TRUE
       ELSE UNCHANGED <<gdf, buffered>>
    /\ pc' = "rasterize"
    /\ UNCHANGED <<args, entered, frame, result>>
    /\ UNCHANGED kvars

\* Lines 89-91
geometry_value_pairs_ignoring_column(df, value_column) ==
    [i \in DOMAIN df |-> <<df[i].geometry>>]

geometry_value_pairs(df, value_column) ==
    IF IsNone(value_column)
    THEN [i \in DOMAIN df |-> <<df[i].geometry>>]
    ELSE [i \in DOMAIN df |-> <<df[i].geometry, df[i][Get(value_column)]>>]

\* Lines 58-73: (width, height, out_transform)
_transform_from_geometries(df, resolution) ==
    LET b == total_bounds(df)
        width == Quot(b.max_x - b.min_x, resolution)
        height == Quot(b.max_y - b.min_y, resolution)
    IN  [width |-> width, height |-> height,
         transform |-> from_bounds(b.min_x, b.min_y, b.max_x, b.max_y, width, height)]

\* Lines 93-100: the grid frame of the output
GridFrame(df, a) ==
    IF IsNone(a.base_raster_profile)
    THEN _transform_from_geometries(df, a.resolution)
    ELSE LET p == Get(a.base_raster_profile)
         IN  [width |-> Quot(p.width, 1), height |-> Quot(p.height, 1),
              transform |-> p.transform]

\* Lines 89-110: _rasterize_vector's frame record and its result
_rasterize_vector_frame(df, a) ==
    LET g == GridFrame(df, a)
    IN  [status |-> "computed", width |-> g.width, height |-> g.height,
         out_shape |-> <<Round(g.height), Round(g.width)>>]

_rasterize_vector(df, a) ==
    LET g == GridFrame(df, a)
        r == rasterize(geometry_value_pairs(df, a.value_column), a.fill_value,
                       a.default_value, g.transform,
                       <<Round(g.height), Round(g.width)>>)
    IN  IF r.status = "raised" THEN r
        ELSE [status |-> "returned", array |-> r.array,
              meta |-> [transform |-> g.transform, height |-> g.height,
                        width |-> g.width]]

\* lines 48-55 and 76-110
rasterize_vector_delegate ==
    /\ pc = "rasterize"
    /\ entered' = TRUE
    /\ frame' = _rasterize_vector_frame(gdf, args)
    /\ result' = _rasterize_vector(gdf, args)
    /\ pc' = IF result'.status = "returned" THEN "done" ELSE "failed"
    /\ UNCHANGED <<gdf, args, buffered>>
    /\ UNCHANGED kvars

\* the caller takes the result; its GeoDataFrame stays as the call left it
rasterize_vector_returns ==
    /\ pc \in {"done", "failed"}
    /\ pc' = "idle"
    /\ args' = NoArgs
    /\ buffered' = FALSE
    /\ entered' = FALSE
    /\ frame' = NoFrame
    /\ result' = NoResult
    /\ UNCHANGED gdf
    /\ UNCHANGED kvars

\* ------------------------------------------------------------ kriging
MaxPoints == 2       \* most sample points of a kriging call
MaxGrid == 2         \* largest grid resolution component
MaxDriftTerms == 2   \* longest drift_terms list

\* line 89
AcceptedDriftTerms ==
    {"regional_linear", "point_log", "external_Z", "specified", "functional"}

\* the input GeoDataFrame of kriging: n point rows, the columns "geometry"
\* and "value", and a CRS
KrigingData == [n : 0..MaxPoints, crs : {"EPSG:3067", "EPSG:4326"}]

DriftTermLists ==
    UNION { [1..k -> AcceptedDriftTerms \cup {"bogus"}] : k \in 0..MaxDriftTerms }

VariogramSpecs ==
    [variogram_model : {"linear", "gaussian"},
     method : {"ordinary", "universal"},
     drift_terms : DriftTermLists]

\* the arguments of a call on the caller's samples with the caller's
\* variogram specification
KrigingArgs(data, v) ==
    [data : {data},
     target_column : {"value", "missing"},
     resolution : (0..MaxGrid) \X (0..MaxGrid),
     extent : {<<0, 4, 0, 2>>},
     variogram_model : {v.variogram_model},
     method : {v.method},
     drift_terms : {v.drift_terms}]

K_NoArgs ==
    [data |-> [n |-> 0, crs |-> "EPSG:3067"], target_column |-> "value",
     resolution |-> <<0, 0>>, extent |-> <<0, 4, 0, 2>>,
     variogram_model |-> "linear", method |-> "ordinary", drift_terms |-> << >>]

\* Lines 77-93: the exception the checks raise, or "ok".
kriging_checks_no_drift_check(a) ==
    IF a.data.n = 0 THEN "EmptyDataFrameException"
    ELSE IF a.target_column \notin Columns THEN "InvalidParameterValueException"
    ELSE IF a.resolution[1] <= 0 \/ a.resolution[2] <= 0
         THEN "InvalidParameterValueException"
    ELSE "ok"

kriging_checks(a) ==
    IF a.data.n = 0 THEN "EmptyDataFrameException"
    ELSE IF a.target_column \notin Columns THEN "InvalidParameterValueException"
    ELSE IF a.resolution[1] <= 0 \/ a.resolution[2] <= 0
         THEN "InvalidParameterValueException"
    ELSE IF \E i \in DOMAIN a.drift_terms : a.drift_terms[i] \notin AcceptedDriftTerms
         THEN "InvalidParameterValueException"
    ELSE "ok"

\* np.linspace(start, stop, num) for an integer num >= 1: num points, the
\* i-th being start + (i - 1) * (stop - start) / (num - 1)
linspace_as_arange(start, stop, num) ==
    [i \in 1..((stop - start) \div num) |-> Quot(start + (i - 1) * num, 1)]

linspace(start, stop, num) ==
    [i \in 1..num |->
        IF num = 1 THEN Quot(start, 1)
        ELSE Quot(start * (num - 1) + (i - 1) * (stop - start), num - 1)]

\* pykrige: UniversalKriging(x, y, z, variogram_model, drift_terms) is given
\* none of the arrays that the drift terms other than regional_linear need
\* (point_drift, external_drift, specified_drift, functional_drift), and
\* raises for each of those terms; an unknown term raises as well.
UniversalKriging(drift_terms) ==
    IF \E i \in DOMAIN drift_terms : drift_terms[i] # "regional_linear"
    THEN "ValueError" ELSE "ok"

\* execute("grid", grid_x, grid_y): one estimate per grid node, in an array
\* of len(grid_y) rows and len(grid_x) columns; ma.getdata keeps its shape.
\* The estimates themselves are not modelled: every cell holds "z".
execute_grid(grid_x, grid_y) ==
    [r \in 1..Len(grid_y) |-> [c \in 1..Len(grid_x) |-> "z"]]

\* Lines 24-44: _kriging, given whether the solver succeeds
_kriging(a, solved) ==
    LET grid_x == linspace(a.extent[1], a.extent[2], a.resolution[1])
        grid_y == linspace(a.extent[3], a.extent[4], a.resolution[2])
    IN  IF a.method = "universal" /\ UniversalKriging(a.drift_terms) # "ok"
        THEN Raised(UniversalKriging(a.drift_terms))
        ELSE IF ~solved THEN Raised("LinAlgError")
        ELSE [status |-> "returned",
              array |-> execute_grid(grid_x, grid_y),
              meta |-> [crs |-> a.data.crs, width |-> Len(grid_x),
                        height |-> Len(grid_y)]]

\* kriging is called: lines 77-93
kriging(a) ==
    /\ k_pc = "idle"
    /\ k_args' = a
    /\ IF kriging_checks(a) = "ok"
       THEN /\ k_pc' = "validated"
            /\ k_result' = NoResult
       ELSE /\ k_pc' = "failed"
            /\ k_result' = Raised(kriging_checks(a))
    /\ UNCHANGED <<samples, vspec, k_entered>>
    /\ UNCHANGED rvars

\* lines 95-99 and 14-44; the numerical solver may fail
kriging_delegate ==
    /\ k_pc = "validated"
    /\ k_entered' = TRUE
    /\ \E solved \in BOOLEAN : k_result' = _kriging(k_args, solved)
    /\ k_pc' = IF k_result'.status = "returned" THEN "done" ELSE "failed"
    /\ UNCHANGED <<samples, vspec, k_args>>
    /\ UNCHANGED rvars

kriging_returns ==
    /\ k_pc \in {"done", "failed"}
    /\ k_pc' = "idle"
    /\ k_args' = K_NoArgs
    /\ k_entered' = FALSE
    /\ k_result' = NoResult
    /\ UNCHANGED <<samples, vspec>>
    /\ UNCHANGED rvars

InitRasterize ==
    /\ gdf \in GeoDataFrames
    /\ pc = "idle"
    /\ args = NoArgs
    /\ buffered = FALSE
    /\ entered = FALSE
    /\ frame = NoFrame
    /\ result = NoResult
    /\ samples = K_NoArgs.data
    /\ vspec = [variogram_model |-> "linear", method |-> "ordinary", drift_terms |-> << >>]
    /\ k_pc = "idle"
    /\ k_args = K_NoArgs
    /\ k_entered = FALSE
    /\ k_result = NoResult

NextRasterize ==
    \/ \E a \in RasterizeArgs : rasterize_vector(a)
    \/ rasterize_vector_buffer
    \/ rasterize_vector_delegate
    \/ rasterize_vector_returns

SpecRasterize == InitRasterize /\ [][NextRasterize]_vars

InitKriging ==
    /\ gdf = << >>
    /\ pc = "idle"
    /\ args = NoArgs
    /\ buffered = FALSE
    /\ entered = FALSE
    /\ frame = NoFrame
    /\ result = NoResult
    /\ samples \in KrigingData
    /\ vspec \in VariogramSpecs
    /\ k_pc = "idle"
    /\ k_args = K_NoArgs
    /\ k_entered = FALSE
    /\ k_result = NoResult

NextKriging ==
    \/ \E a \in KrigingArgs(samples, vspec) : kriging(a)
    \/ kriging_delegate
    \/ kriging_returns

SpecKriging == InitKriging /\ [][NextKriging]_vars

\* ------------------------------------------------------------ error kinds
\* The error kinds of the error taxonomy, by the exception raised.
ErrorKind(exc) ==
    IF exc = "EmptyDataFrameException" THEN "EmptyInput"
    ELSE IF exc \in {"ValueError", "InvalidParameterValueException"} THEN "InvalidParameter"
    ELSE "NumericDivergence"

\* ------------------------------------------------------------ properties
\* The (possibly buffered) geometries burned by the call in progress are
\* those of gdf; Footprint(r, c) is the set of rows whose geometry covers
\* cell (r, c) of the returned array.
Footprint(T, r, c) == { i \in DOMAIN gdf : Covers(gdf[i].geometry, T, r, c) }
RowValue(i) ==
    IF IsNone(args.value_column) THEN args.default_value ELSE gdf[i].value
Cells(arr) == { <<r, c>> \in (DOMAIN arr) \X (1..Len(arr[1])) : TRUE }
Reverse(seq) == [i \in DOMAIN seq |-> seq[Len(seq) + 1 - i]]
IsIntegral(q) == q.den > 0 /\ q.num % q.den = 0

\* C1: no step of a rasterize_vector call, with or without buffer_value,
\* changes the geometries of the GeoDataFrame the caller passed in.
C1_InputNotMutated == [][gdf' = gdf]_vars

\* C2: validation comes before any buffering or burn-in: a call on an empty
\* frame fails with EmptyInput; a call on a non-empty frame with
\* resolution <= 0, an absent value_column or buffer_value < 0 fails with
\* InvalidParameter; in either failure nothing was buffered,
\* _rasterize_vector was not entered and nothing is returned.
C2_InvalidCall ==
    \/ args.resolution <= 0
    \/ (~IsNone(args.value_column) /\ Get(args.value_column) \notin Columns)
    \/ (~IsNone(args.buffer_value) /\ Get(args.buffer_value) < 0)

C2_EagerValidation ==
    pc # "idle" =>
        /\ Len(gdf) = 0 =>
              /\ pc = "failed" /\ result.status = "raised"
              /\ ErrorKind(result.exc) = "EmptyInput"
              /\ ~buffered /\ ~entered
        /\ (Len(gdf) > 0 /\ C2_InvalidCall) =>
              /\ pc = "failed" /\ result.status = "raised"
              /\ ErrorKind(result.exc) = "InvalidParameter"
              /\ ~buffered /\ ~entered

C2_Witness ==
    /\ pc = "failed" /\ Len(gdf) > 0 /\ ~entered
    /\ args.resolution > 0 /\ IsNone(args.value_column)
    /\ args.buffer_value = Some(-1)

\* C4: a grid frame derived from the geometries of a non-empty frame with a
\* resolution > 0 has width > 0 and height > 0, as returned by
\* _transform_from_geometries and as rounded for out_shape.
C4_DerivedFramePositive ==
    (frame.status = "computed" /\ IsNone(args.base_raster_profile)) =>
        /\ frame.width.num > 0 /\ frame.width.den > 0
        /\ frame.height.num > 0 /\ frame.height.den > 0
        /\ frame.out_shape[1] > 0 /\ frame.out_shape[2] > 0

\* C5: a cell covered by several geometries holds the value of the last of
\* them in the frame's order, and when no cell is covered by two geometries
\* the frame in reversed order rasterizes to the same array.
C5_LastGeometryWins ==
    pc = "done" =>
        LET A == result.array
            T == result.meta.transform
        IN  /\ \A rc \in Cells(A) :
                  Footprint(T, rc[1], rc[2]) # {} =>
                      A[rc[1]][rc[2]] = RowValue(Max(Footprint(T, rc[1], rc[2])))
            /\ (\A rc \in Cells(A) : Cardinality(Footprint(T, rc[1], rc[2])) <= 1) =>
                  _rasterize_vector(Reverse(gdf), args).array = A

C5_Witness ==
    /\ pc = "done" /\ args.value_column = Some("value")
    /\ \E rc \in Cells(result.array) :
          /\ Footprint(result.meta.transform, rc[1], rc[2]) = {1, 2}
          /\ result.array[rc[1]][rc[2]] = gdf[2].value

\* C6: a cell outside the footprint of every (possibly buffered) geometry
\* holds fill_value; a cell inside a footprint holds the value of a geometry
\* that covers it, its value_column entry or else default_value.
C6_FillOutsideValueInside ==
    pc = "done" =>
        LET A == result.array
            T == result.meta.transform
        IN  \A rc \in Cells(A) :
               IF Footprint(T, rc[1], rc[2]) = {}
               THEN A[rc[1]][rc[2]] = args.fill_value
               ELSE \E i \in Footprint(T, rc[1], rc[2]) : A[rc[1]][rc[2]] = RowValue(i)

C6_Witness ==
    /\ pc = "done" /\ buffered /\ args.value_column = Some("value")
    /\ \E rc \in Cells(result.array) :
          Footprint(result.meta.transform, rc[1], rc[2]) = {}
    /\ \E rc \in Cells(result.array) :
          Footprint(result.meta.transform, rc[1], rc[2]) # {}

\* C10: the width and height in the metadata of a successful
\* rasterize_vector call are positive integers, equal to the numbers of
\* columns and rows of the returned array.
C10_MetaMatchesArray ==
    pc = "done" =>
        /\ IsIntegral(result.meta.width) /\ IsIntegral(result.meta.height)
        /\ result.meta.width.num > 0 /\ result.meta.height.num > 0
        /\ result.meta.height.num = Len(result.array) * result.meta.height.den
        /\ \A r \in DOMAIN result.array :
              result.meta.width.num = Len(result.array[r]) * result.meta.width.den

\* C3 (as stated): a universal call whose drift_terms hold a term outside
\* the accepted five fails with InvalidParameter before _kriging is entered,
\* and returns nothing.
C3_UnknownDrift ==
    /\ k_args.method = "universal"
    /\ \E i \in DOMAIN k_args.drift_terms : k_args.drift_terms[i] \notin AcceptedDriftTerms

C3_UnknownDriftIsInvalidParameter ==
    (k_pc # "idle" /\ C3_UnknownDrift) =>
        /\ k_pc = "failed" /\ k_result.status = "raised"
        /\ ErrorKind(k_result.exc) = "InvalidParameter"
        /\ ~k_entered

\* C3 (amended): such a call fails before _kriging is entered and returns
\* nothing; the failure is InvalidParameter when the sample set is non-empty
\* and EmptyInput when it is empty.
C3_UnknownDriftFailsEarly ==
    (k_pc # "idle" /\ C3_UnknownDrift) =>
        /\ k_pc = "failed" /\ k_result.status = "raised"
        /\ ErrorKind(k_result.exc) =
              IF k_args.data.n = 0 THEN "EmptyInput" ELSE "InvalidParameter"
        /\ ~k_entered

C3_Witness ==
    /\ k_pc = "failed" /\ C3_UnknownDrift
    /\ k_args.data.n > 0 /\ k_args.target_column \in Columns
    /\ k_args.resolution[1] > 0 /\ k_args.resolution[2] > 0
    /\ k_args.drift_terms = <<"regional_linear", "bogus">>

\* C7: the grid a kriging call returns has resolution[0] * resolution[1]
\* cells, and its metadata has width = resolution[0], height = resolution[1],
\* whatever the method and the drift terms.
RECURSIVE CellCount(_)
CellCount(arr) == IF Len(arr) = 0 THEN 0 ELSE Len(Head(arr)) + CellCount(Tail(arr))

C7_GridSize ==
    k_pc = "done" =>
        /\ CellCount(k_result.array) = k_args.resolution[1] * k_args.resolution[2]
        /\ k_result.meta.width = k_args.resolution[1]
        /\ k_result.meta.height = k_args.resolution[2]

C7_Witness ==
    /\ k_pc = "done" /\ k_args.method = "universal"
    /\ k_args.drift_terms = <<"regional_linear">>
    /\ k_args.resolution = <<1, 2>>
    /\ CellCount(k_result.array) = 2

\* C8: the metadata of a successful rasterize_vector or kriging call has the
\* keys transform, width and height; that of kriging also has crs, the CRS
\* of the input samples.
C8_MetadataKeys ==
    /\ pc = "done" => {"transform", "width", "height"} \subseteq DOMAIN result.meta
    /\ k_pc = "done" =>
          /\ {"transform", "width", "height", "crs"} \subseteq DOMAIN k_result.meta
          /\ k_result.meta.crs = k_args.data.crs

\* C9: with method = ordinary and the other preconditions met, drift_terms
\* is not checked: the call does not fail in validation whatever the list
\* holds.
C9_OrdinaryIgnoresDriftTerms ==
    ( /\ k_pc # "idle" /\ k_args.method = "ordinary"
      /\ k_args.data.n > 0 /\ k_args.target_column \in Columns
      /\ k_args.resolution[1] > 0 /\ k_args.resolution[2] > 0 ) =>
        (k_pc = "validated" \/ k_entered)

====
